---- MODULE Spec2Model ----
(***************************************************************************)
(* sync_monitors.py: one run of the script that reconciles the monitor     *)
(* registry (UptimeRobot API v3) against the server inventory.             *)
(*                                                                         *)
(* Strings that the program inspects character by character (the stdout of *)
(* the remote command, IP addresses, monitor urls) are sequences of        *)
(* one-character strings.  Strings that are only compared (names, hosts,   *)
(* cpu types) are TLA+ strings.                                            *)
(***************************************************************************)
EXTENDS Integers, Sequences, FiniteSets, TLC

VARIABLES
    apiKey,            \* UPTIMEROBOT_API_KEY is set (line 11)
    sshCreds,          \* SSH_USER and SSH_PASS are both set (lines 12-13)
    pc,                \* position of the process
    exitStatus,        \* -1 while running, then the process exit status
    fetchResult,       \* outcome of the inventory GET: "none", "ok", "error"
    servers,           \* main(): servers
    current_monitors,  \* main(): current_monitors (friendly_name -> monitor)
    i,                 \* index of the record the for loop is at (1-based)
    run,               \* result of subprocess.run in get_public_ip
    public_ip,         \* main(): public_ip
    registry,          \* the remote registry: list of monitors
    events             \* history: external calls issued, in order

vars == << apiKey, sshCreds, pc, exitStatus, fetchResult, servers,
           current_monitors, i, run, public_ip, registry, events >>

-----------------------------------------------------------------------------
(* Bounds *)

MaxServers == 2     \* longest inventory
MaxSegs == 5        \* most dot-separated segments in the remote output

-----------------------------------------------------------------------------
(* Values *)

Missing == "<missing>"      \* dict.get(key) -> None
NonStr == "<number>"        \* a JSON value that is not a string (e.g. 5)
NoIP == << "None" >>        \* get_public_ip returning None
EmptyMap == [n \in {} |-> 0]
NoRun == [kind |-> "none", returncode |-> 0, stdout |-> << >>]

Whitespace == {" ", "\n"}
Digits == {"1", "2"}

RECURSIVE Dotted(_, _)
\* k segments d joined by dots: Dotted(4, "1") is 1.1.1.1
Dotted(k, d) ==
    IF k = 0 THEN << >>
    ELSE IF k = 1 THEN << d >>
    ELSE Dotted(k - 1, d) \o << ".", d >>

IpA == Dotted(4, "1")
IpB == Dotted(4, "2")

\* What the remote `curl -s -4 ifconfig.me` may print
Stdouts ==
    { lead \o Dotted(k, d) \o trail :
        lead \in {<< >>, << " " >>}, trail \in {<< >>, << "\n" >>},
        k \in 0..MaxSegs, d \in Digits }

\* Results of subprocess.run: exit with a code and stdout, TimeoutExpired,
\* or any other exception (e.g. sshpass not installed)
Runs ==
    [kind : {"exit"}, returncode : {0, 255}, stdout : Stdouts]
    \cup { [kind |-> "timeout", returncode |-> 0, stdout |-> << >>],
           [kind |-> "exception", returncode |-> 0, stdout |-> << >>] }

\* Inventory records as the endpoint may serve them
ServerRecords ==
    { [name |-> "edge1", ssh_host |-> "edge1.example.com", cpu_type |-> Missing],
      [name |-> "edge2", ssh_host |-> "edge2.example.com", cpu_type |-> "arm"],
      [name |-> "edge1", ssh_host |-> "edge1.example.com", cpu_type |-> NonStr],
      [name |-> Missing, ssh_host |-> "edge1.example.com", cpu_type |-> "amd64"],
      [name |-> "", ssh_host |-> "edge2.example.com", cpu_type |-> Missing],
      [name |-> "edge1", ssh_host |-> Missing, cpu_type |-> "amd64"],
      [name |-> "edge2", ssh_host |-> "", cpu_type |-> Missing] }

Inventories == UNION { [1..n -> ServerRecords] : n \in 0..MaxServers }

Monitor(id, name, url) == [id |-> id, friendly_name |-> name, url |-> url]

\* Registries at the start of a run: at most one monitor per friendly name
InitRegistries ==
    { << >>,
      << Monitor(42, "edge1", IpA) >>,
      << Monitor(42, "edge1", IpB) >>,
      << Monitor(42, "edge1", IpA), Monitor(43, "edge2", IpA) >> }

Event(op, idx, name, url, id, dup, ssh) ==
    [op |-> op, idx |-> idx, name |-> name, url |-> url, id |-> id,
     dup |-> dup, ssh |-> ssh]

-----------------------------------------------------------------------------
(* Pure functions of the program *)

\* `not x` for a field read with dict.get: None or the empty string
Not(x) == x = Missing \/ x = ""

\* line 166: `not public_ip`: None or the empty string
NotIp(ip) == ip = NoIP \/ ip = << >>

RECURSIVE lstrip(_)
lstrip(s) ==
    IF s # << >> /\ Head(s) \in Whitespace THEN lstrip(Tail(s)) ELSE s

RECURSIVE rstrip(_)
rstrip(s) ==
    IF s # << >> /\ s[Len(s)] \in Whitespace
    THEN rstrip(SubSeq(s, 1, Len(s) - 1)) ELSE s

\* str.strip()
strip(s) == rstrip(lstrip(s))

\* len(ip.split('.'))
SplitCount(s) == Cardinality({k \in DOMAIN s : s[k] = "."}) + 1

ValidIpLoose(ip) == SplitCount(ip) >= 4

\* line 83: len(ip.split('.')) == 4
ValidIp(ip) == SplitCount(ip) = 4

\* server.get('cpu_type', 'amd64')
CpuTypeOf(server) ==
    IF server.cpu_type = Missing THEN "amd64" ELSE server.cpu_type

\* get_cloudflared_binary raises AttributeError on cpu_type.lower() when the
\* value is truthy and not a string
BinaryRaises(cpu_type) == cpu_type = NonStr

\* get_public_ip once subprocess.run has produced r (lines 78-94)
get_public_ip(r) ==
    IF r.kind = "exit" /\ r.returncode = 0 /\ ValidIp(strip(r.stdout))
    THEN strip(r.stdout) ELSE NoIP

SkipRecordNameOnly(server) == Not(server.name)

\* line 160: if not name or not ssh_host
SkipRecord(server) == Not(server.name) \/ Not(server.ssh_host)

NoServersNever(s) == FALSE

\* line 148: if not servers
NoServers(s) == s = << >>

\* line 102: {m['friendly_name']: m for m in monitors} (the last one wins)
BuildSnapshot(ms) ==
    [n \in {ms[k].friendly_name : k \in DOMAIN ms} |->
        LET ks == {k \in DOMAIN ms : ms[k].friendly_name = n}
        IN ms[CHOOSE k \in ks : \A j \in ks : j <= k]]

\* line 172: name in current_monitors
Known(name) == name \in DOMAIN current_monitors

LookupLive(name) ==
    registry[CHOOSE k \in DOMAIN registry : registry[k].friendly_name = name]

\* line 173: monitor = current_monitors[name]
Lookup(name) == current_monitors[name]

ChangedAlways(monitor, ip) == TRUE

\* line 175: old_ip != public_ip
Changed(monitor, ip) == monitor.url # ip

NextId ==
    IF registry = << >> THEN 1
    ELSE 1 + (CHOOSE m \in {registry[k].id : k \in DOMAIN registry} :
                \A k \in DOMAIN registry : registry[k].id <= m)

HasName(name) == \E k \in DOMAIN registry : registry[k].friendly_name = name

CreatePayloadNoUrl(name, url) == [friendlyName |-> name, url |-> << >>]

\* lines 113-118: the body of the POST
CreatePayload(name, url) == [friendlyName |-> name, url |-> url]

UpdateTargetFirst(monitor) == IF registry = << >> THEN 0 ELSE registry[1].id

\* line 177: monitor['id'], the monitor the PATCH is addressed to
UpdateTarget(monitor) == monitor.id

-----------------------------------------------------------------------------
(* Initial state: the environment and the remote registry *)

Init ==
    /\ apiKey \in BOOLEAN
    /\ sshCreds \in BOOLEAN
    /\ registry \in InitRegistries
    /\ pc = "boot"
    /\ exitStatus = -1
    /\ fetchResult = "none"
    /\ servers = << >>
    /\ current_monitors = EmptyMap
    /\ i = 0
    /\ run = NoRun
    /\ public_ip = NoIP
    /\ events = << >>

-----------------------------------------------------------------------------
(* Steps *)

\* lines 22-24: a missing API key ends the process with status 1
Boot ==
    /\ pc = "boot"
    /\ IF ~apiKey
       THEN pc' = "exited" /\ exitStatus' = 1
       ELSE pc' = "main" /\ exitStatus' = exitStatus
    /\ UNCHANGED << apiKey, sshCreds, fetchResult, servers, current_monitors,
                    i, run, public_ip, registry, events >>

\* lines 147-150: servers = get_server_list(); if not servers: return
get_server_list ==
    /\ pc = "main"
    /\ \E r \in {"ok", "error"}, inv \in Inventories :
         /\ r = "error" => inv = << >>
         /\ fetchResult' = r
         /\ servers' = inv
         /\ IF NoServers(inv)
            THEN pc' = "done" /\ exitStatus' = 0
            ELSE pc' = "list" /\ exitStatus' = exitStatus
    /\ UNCHANGED << apiKey, sshCreds, current_monitors, i, run, public_ip,
                    registry, events >>

\* lines 152-153 and 96-108: current_monitors = get_current_monitors()
get_current_monitors ==
    /\ pc = "list"
    /\ \E ok \in BOOLEAN :
         current_monitors' = IF ok THEN BuildSnapshot(registry) ELSE EmptyMap
    /\ events' = Append(events, Event("list", 0, "", << >>, 0, FALSE, FALSE))
    /\ i' = 1
    /\ pc' = "loop"
    /\ UNCHANGED << apiKey, sshCreds, exitStatus, fetchResult, servers, run,
                    public_ip, registry >>

\* the for loop is exhausted: main() returns, the process exits 0
Return ==
    /\ pc = "loop"
    /\ i > Len(servers)
    /\ pc' = "done"
    /\ exitStatus' = 0
    /\ UNCHANGED << apiKey, sshCreds, fetchResult, servers, current_monitors,
                    i, run, public_ip, registry, events >>

\* lines 156-161: a record without name or ssh_host is passed over
Skip ==
    /\ pc = "loop"
    /\ i <= Len(servers)
    /\ SkipRecord(servers[i])
    /\ i' = i + 1
    /\ UNCHANGED << apiKey, sshCreds, pc, exitStatus, fetchResult, servers,
                    current_monitors, run, public_ip, registry, events >>

\* lines 58-60: get_public_ip without SSH credentials
ResolveNoCreds ==
    /\ pc = "loop"
    /\ i <= Len(servers)
    /\ ~SkipRecord(servers[i])
    /\ ~sshCreds
    /\ public_ip' = NoIP
    /\ run' = NoRun
    /\ events' = Append(events,
          Event("resolve", i, servers[i].name, NoIP, 0, FALSE, FALSE))
    /\ pc' = "resolved"
    /\ UNCHANGED << apiKey, sshCreds, exitStatus, fetchResult, servers,
                    current_monitors, i, registry >>

\* line 62: get_cloudflared_binary is called outside the try block; its
\* AttributeError leaves get_public_ip and main(): traceback, status 1
ResolveRaises ==
    /\ pc = "loop"
    /\ i <= Len(servers)
    /\ ~SkipRecord(servers[i])
    /\ sshCreds
    /\ BinaryRaises(CpuTypeOf(servers[i]))
    /\ pc' = "crashed"
    /\ exitStatus' = 1
    /\ UNCHANGED << apiKey, sshCreds, fetchResult, servers, current_monitors,
                    i, run, public_ip, registry, events >>

\* lines 62-94: the SSH session is run and its result validated
Resolve ==
    /\ pc = "loop"
    /\ i <= Len(servers)
    /\ ~SkipRecord(servers[i])
    /\ sshCreds
    /\ ~BinaryRaises(CpuTypeOf(servers[i]))
    /\ \E r \in Runs :
         /\ run' = r
         /\ public_ip' = get_public_ip(r)
         /\ events' = Append(events,
               Event("resolve", i, servers[i].name, get_public_ip(r), 0,
                     FALSE, TRUE))
    /\ pc' = "resolved"
    /\ UNCHANGED << apiKey, sshCreds, exitStatus, fetchResult, servers,
                    current_monitors, i, registry >>

\* lines 166-168: if not public_ip: continue
NoIp ==
    /\ pc = "resolved"
    /\ NotIp(public_ip)
    /\ i' = i + 1
    /\ pc' = "loop"
    /\ run' = NoRun
    /\ public_ip' = NoIP
    /\ UNCHANGED << apiKey, sshCreds, exitStatus, fetchResult, servers,
                    current_monitors, registry, events >>

\* lines 172-177 and 130-144: update_monitor(monitor['id'], name, public_ip)
Update ==
    /\ pc = "resolved"
    /\ ~NotIp(public_ip)
    /\ Known(servers[i].name)
    /\ LET monitor == Lookup(servers[i].name)
           id == UpdateTarget(monitor)
       IN /\ Changed(monitor, public_ip)
          /\ events' = Append(events,
                Event("update", i, servers[i].name, public_ip, id, FALSE, FALSE))
          /\ \E ok \in BOOLEAN :
               registry' =
                 IF ok
                 THEN [k \in DOMAIN registry |->
                         IF registry[k].id = id
                         THEN [registry[k] EXCEPT !.url = public_ip]
                         ELSE registry[k]]
                 ELSE registry
    /\ i' = i + 1
    /\ pc' = "loop"
    /\ run' = NoRun
    /\ public_ip' = NoIP
    /\ UNCHANGED << apiKey, sshCreds, exitStatus, fetchResult, servers,
                    current_monitors >>

\* lines 178-179: IP unchanged, no action
NoAction ==
    /\ pc = "resolved"
    /\ ~NotIp(public_ip)
    /\ Known(servers[i].name)
    /\ ~Changed(Lookup(servers[i].name), public_ip)
    /\ i' = i + 1
    /\ pc' = "loop"
    /\ run' = NoRun
    /\ public_ip' = NoIP
    /\ UNCHANGED << apiKey, sshCreds, exitStatus, fetchResult, servers,
                    current_monitors, registry, events >>

\* lines 180-182 and 110-128: create_monitor(name, public_ip)
Create ==
    /\ pc = "resolved"
    /\ ~NotIp(public_ip)
    /\ ~Known(servers[i].name)
    /\ LET payload == CreatePayload(servers[i].name, public_ip)
       IN /\ events' = Append(events,
                Event("create", i, payload.friendlyName, payload.url, 0,
                      HasName(payload.friendlyName), FALSE))
          /\ \E ok \in BOOLEAN :
               registry' =
                 IF ok
                 THEN Append(registry,
                        Monitor(NextId, payload.friendlyName, payload.url))
                 ELSE registry
    /\ i' = i + 1
    /\ pc' = "loop"
    /\ run' = NoRun
    /\ public_ip' = NoIP
    /\ UNCHANGED << apiKey, sshCreds, exitStatus, fetchResult, servers,
                    current_monitors >>

Next ==
    \/ Boot
    \/ get_server_list
    \/ get_current_monitors
    \/ Return
    \/ Skip
    \/ ResolveNoCreds
    \/ ResolveRaises
    \/ Resolve
    \/ NoIp
    \/ Update
    \/ NoAction
    \/ Create

Spec == Init /\ [][Next]_vars

-----------------------------------------------------------------------------
(* Reading the history *)

Idx == 1..Len(servers)

\* the calls of kind op issued for record idx
EvSet(idx, op) ==
    {k \in DOMAIN events : events[k].idx = idx /\ events[k].op = op}

\* the for loop has finished with record idx
Handled(idx) == idx < i

\* get_public_ip returned an IP for record idx
HasIp(idx) == \E k \in EvSet(idx, "resolve") : events[k].url # NoIP

ResolvedIp(idx) == events[CHOOSE k \in EvSet(idx, "resolve") : TRUE].url

Complete(idx) == ~Not(servers[idx].name) /\ ~Not(servers[idx].ssh_host)

InSnapshot(idx) == servers[idx].name \in DOMAIN current_monitors

Terminated == pc \in {"done", "crashed", "exited"}

UniqueNames(ms) ==
    \A j, k \in DOMAIN ms : ms[j].friendly_name = ms[k].friendly_name => j = k

-----------------------------------------------------------------------------
(* Claims *)

\* C1: a complete record whose IP is resolved and whose name is not in the
\* monitor snapshot gets exactly one Create call, carrying its name and the
\* resolved IP, and no Update call.
C1_CreateWhenAbsent ==
    \A idx \in Idx :
        (Handled(idx) /\ Complete(idx) /\ HasIp(idx) /\ ~InSnapshot(idx)) =>
            /\ Cardinality(EvSet(idx, "create")) = 1
            /\ \A k \in EvSet(idx, "create") :
                  /\ events[k].name = servers[idx].name
                  /\ events[k].url = ResolvedIp(idx)
            /\ EvSet(idx, "update") = {}

C1_Witness ==
    /\ pc = "done"
    /\ \E idx \in Idx :
          /\ Complete(idx) /\ HasIp(idx) /\ ~InSnapshot(idx)
          /\ \E k \in EvSet(idx, "create") : events[k].url = IpB

\* C2: a record whose IP is resolved and whose name is in the snapshot with
\* a different url gets exactly one Update call, addressed to that monitor's
\* id and carrying the resolved IP, and no Create call.
C2_UpdateWhenChanged ==
    \A idx \in Idx :
        (Handled(idx) /\ HasIp(idx) /\ InSnapshot(idx)
           /\ current_monitors[servers[idx].name].url # ResolvedIp(idx)) =>
            /\ Cardinality(EvSet(idx, "update")) = 1
            /\ \A k \in EvSet(idx, "update") :
                  /\ events[k].id = current_monitors[servers[idx].name].id
                  /\ events[k].url = ResolvedIp(idx)
            /\ EvSet(idx, "create") = {}

C2_Witness ==
    /\ pc = "done"
    /\ \E idx \in Idx :
          /\ HasIp(idx) /\ InSnapshot(idx)
          /\ current_monitors[servers[idx].name].url # ResolvedIp(idx)
          /\ \E k \in EvSet(idx, "update") : events[k].id = 43

\* C3: a record whose IP is resolved and whose name is in the snapshot with
\* the same url gets neither a Create nor an Update call.
C3_NoActionWhenSame ==
    \A idx \in Idx :
        (Handled(idx) /\ HasIp(idx) /\ InSnapshot(idx)
           /\ current_monitors[servers[idx].name].url = ResolvedIp(idx)) =>
            /\ EvSet(idx, "create") = {}
            /\ EvSet(idx, "update") = {}

C3_Witness ==
    /\ pc = "done"
    /\ \E idx \in Idx :
          /\ HasIp(idx) /\ InSnapshot(idx)
          /\ current_monitors[servers[idx].name].url = ResolvedIp(idx)
          /\ EvSet(idx, "create") \cup EvSet(idx, "update") = {}

\* C4: a Create call is issued for a name only when the registry holds no
\* monitor of that friendly name at the moment of the call, so the registry
\* never holds two monitors of the same friendly name.
C4_UniqueKey ==
    /\ \A k \in DOMAIN events : events[k].op = "create" => ~events[k].dup
    /\ UniqueNames(registry)

\* C5: a record lacking a name or an ssh_host (missing or empty) causes no
\* call at all (no resolution, no Create, no Update), and the loop goes on
\* from it: the run is never resolving, reconciling or ending at that record.
C5_SkipIncomplete ==
    \A idx \in Idx :
        ~Complete(idx) =>
            /\ \A k \in DOMAIN events : events[k].idx # idx
            /\ (i = idx => pc = "loop")

C5_Witness ==
    /\ pc = "done"
    /\ \E idx \in Idx : ~Complete(idx) /\ idx < Len(servers)
    /\ \E k \in DOMAIN events : events[k].op = "create"

\* s is t with whitespace removed from both ends, and only from the ends
IsStripOf(s, t) ==
    /\ s = << >> \/ (s[1] \notin Whitespace /\ s[Len(s)] \notin Whitespace)
    /\ \E a \in 0..Len(t) :
          /\ a + Len(s) <= Len(t)
          /\ SubSeq(t, a + 1, a + Len(s)) = s
          /\ \A k \in 1..Len(t) :
                (k <= a \/ k > a + Len(s)) => t[k] \in Whitespace

\* a record for which no IP was resolved gets no Create and no Update call
NoIpNoCall ==
    \A idx \in Idx :
        (Handled(idx) /\ EvSet(idx, "resolve") # {} /\ ~HasIp(idx)) =>
            EvSet(idx, "create") \cup EvSet(idx, "update") = {}

\* C6 as stated: output without exactly four dot-separated segments gives no
\* IP and the server is skipped; output with exactly four segments (of a
\* command that exited 0) is returned as the IP unchanged.
C6_Original ==
    /\ (pc = "resolved" /\ run.kind = "exit") =>
          /\ SplitCount(run.stdout) # 4 => public_ip = NoIP
          /\ (run.returncode = 0 /\ SplitCount(run.stdout) = 4) =>
                public_ip = run.stdout
    /\ NoIpNoCall

\* C6 amended: output without exactly four dot-separated segments gives no
\* IP and the server is skipped without a Create or Update call; output with
\* exactly four segments of a command that exited 0 is returned as the IP
\* with leading and trailing whitespace removed.
C6_FourSegments ==
    /\ (pc = "resolved" /\ run.kind = "exit") =>
          /\ SplitCount(run.stdout) # 4 => public_ip = NoIP
          /\ (run.returncode = 0 /\ SplitCount(run.stdout) = 4) =>
                IsStripOf(public_ip, run.stdout)
    /\ NoIpNoCall

C6_Witness ==
    /\ pc = "done"
    /\ \E idx \in Idx :
          /\ Handled(idx) /\ EvSet(idx, "resolve") # {} /\ ~HasIp(idx)
          /\ events[CHOOSE k \in EvSet(idx, "resolve") : TRUE].ssh
    /\ \E idx \in Idx : HasIp(idx)

\* the calls record idx must get, given its resolved IP and snapshot entry
RightAction(idx) ==
    IF ~Complete(idx)
    THEN \A k \in DOMAIN events : events[k].idx # idx
    ELSE /\ Cardinality(EvSet(idx, "resolve")) = 1
         /\ Cardinality(EvSet(idx, "create") \cup EvSet(idx, "update")) <= 1
         /\ EvSet(idx, "create") # {} <=> (HasIp(idx) /\ ~InSnapshot(idx))
         /\ EvSet(idx, "update") # {} <=>
               (HasIp(idx) /\ InSnapshot(idx)
                  /\ current_monitors[servers[idx].name].url # ResolvedIp(idx))

\* C7: whatever fails for one server, every record of the inventory is still
\* processed and gets the create/update/no-op its own resolved IP and
\* snapshot entry call for, with no retry: when the run has ended, every
\* record has been handled with the right calls.
C7_ForwardProgress ==
    (Terminated /\ apiKey) => \A idx \in Idx : Handled(idx) /\ RightAction(idx)

\* C8: without the API key the process exits nonzero before any fetch, SSH
\* session or registry call; with the API key the process never ends with a
\* status other than zero.
C8_ExitStatus ==
    /\ (~apiKey /\ pc # "boot") =>
          /\ pc = "exited" /\ exitStatus = 1
          /\ fetchResult = "none" /\ events = << >>
    /\ apiKey => exitStatus \in {-1, 0}
    /\ (apiKey /\ Terminated) => exitStatus = 0

\* C9: when the inventory fetch fails or returns an empty list, the server
\* list is empty and main() returns at once: no List, Create or Update call
\* and no SSH session.
C9_EmptyInventory ==
    /\ fetchResult = "error" => servers = << >>
    /\ (fetchResult # "none" /\ servers = << >>) =>
          /\ pc = "done" /\ exitStatus = 0
          /\ events = << >>

C9_Witness == fetchResult = "error" /\ pc = "done" /\ registry # << >>

\* the state part of C10
C10_State ==
    \* exactly one List call, before every other call
    /\ (servers # << >> /\ pc \in {"loop", "resolved", "done", "crashed"}) =>
          /\ events # << >> /\ events[1].op = "list"
          /\ \A k \in DOMAIN events : events[k].op = "list" => k = 1
    /\ (pc \in {"boot", "main", "list", "exited"}) => events = << >>
    \* records in inventory order, one at a time, resolution first
    /\ \A j, k \in DOMAIN events :
          j < k => /\ events[j].idx <= events[k].idx
                   /\ events[k].op = "list" => FALSE
                   /\ (events[k].op = "resolve") => events[j].idx < events[k].idx
    /\ \A k \in DOMAIN events :
          \/ events[k].idx < i
          \/ (events[k].idx = i /\ events[k].op = "resolve" /\ pc = "resolved")
    \* every decision is the one the snapshot calls for
    /\ \A idx \in Idx : Handled(idx) => RightAction(idx)
    /\ \A k \in DOMAIN events :
          /\ events[k].op = "create" => events[k].name \notin DOMAIN current_monitors
          /\ events[k].op = "update" =>
                /\ events[k].name \in DOMAIN current_monitors
                /\ events[k].id = current_monitors[events[k].name].id

\* C10: in a run with a non-empty inventory the List call is issued exactly
\* once, before any resolution, Create or Update; records are handled one at
\* a time in inventory order, a record's registry call coming after its
\* resolution and before the next record's; the snapshot is never modified
\* after the List call, and every decision is the one the start-of-run
\* snapshot calls for, whatever was created or updated earlier in the run.
C10_SnapshotOnce ==
    /\ []C10_State
    /\ [][pc # "list" => current_monitors' = current_monitors]_vars

C10_Witness ==
    /\ pc = "done"
    /\ Len(servers) = 2
    /\ servers[1].name = servers[2].name
    /\ EvSet(1, "update") # {} /\ EvSet(2, "update") # {}
    /\ \E k \in DOMAIN registry :
          registry[k].friendly_name = servers[1].name
            /\ registry[k].url # current_monitors[servers[1].name].url

====
